---- MODULE Spec2Model ----
(***************************************************************************)
(* A model of the squash crate: the Header length encoding (BoxHeader) and *)
(* the OwnedSlice container (new, default, clone, drop, deref, deref_mut). *)
(*                                                                         *)
(* A usize/u64 is kept as its eight little-endian base-256 digits, so that *)
(* lengths beyond 2^31 (the 38-bit capacity limit of BoxHeader) can be     *)
(* written down; digit i of the model is byte i-1 of to_le_bytes().        *)
(***************************************************************************)
EXTENDS Integers, Sequences, FiniteSets, TLC

(***************************************************************************)
(* Bounds of the model.                                                    *)
(***************************************************************************)
\* Number of handle variables the client program holds.
MaxHandles == 2
\* Number of allocations the allocator hands out in one behaviour.
MaxAllocs == 2
\* Longest source slice whose elements are all written out.
MaxLen == 2
\* Ordinary element values are 1..MaxVal.
MaxVal == 2

(***************************************************************************)
(* Program constants.                                                      *)
(***************************************************************************)
EXTRA_MASK == 3
INLINE_BITS == 6
INLINE_MASK == 63
MAX_EXTRAS == 4
\* The address of the static ZERO_SENTINEL; allocations have addresses >= 1.
ZERO_SENTINEL == 0
\* Width of u64 in bytes (u64::to_le_bytes gives [u8; 8]).
U64_BYTES == 8

(***************************************************************************)
(* u8 and u64 arithmetic.                                                  *)
(***************************************************************************)
Byte == 0..255

Pow2(n) == 2^n

RECURSIVE BitAnd(_, _)
BitAnd(a, b) ==
    IF a = 0 \/ b = 0 THEN 0
    ELSE (a % 2) * (b % 2) + 2 * BitAnd(a \div 2, b \div 2)

RECURSIVE BitOr(_, _)
BitOr(a, b) ==
    IF a = 0 /\ b = 0 THEN 0
    ELSE (IF a % 2 = 1 \/ b % 2 = 1 THEN 1 ELSE 0) + 2 * BitOr(a \div 2, b \div 2)

\* u8 << n and u8 >> n
Shl8(x, n) == (x * Pow2(n)) % 256
Shr8(x, n) == x \div Pow2(n)

\* Number of significant bits of one byte.
BitLen(b) == IF b = 0 THEN 0 ELSE CHOOSE k \in 1..8 : Pow2(k - 1) <= b /\ b < Pow2(k)

Zero64 == [i \in 1..U64_BYTES |-> 0]

\* The u64 of a number small enough for the model checker's integers.
ToU64(n) == [i \in 1..U64_BYTES |-> IF i <= 3 THEN (n \div Pow2(8 * (i - 1))) % 256
                                     ELSE IF i = 4 THEN n \div Pow2(24)
                                     ELSE 0]

\* Index of the most significant non-zero byte, 0 for the number zero.
TopByte(x) == IF x = Zero64 THEN 0 ELSE CHOOSE i \in 1..U64_BYTES :
                  x[i] # 0 /\ \A j \in (i + 1)..U64_BYTES : x[j] = 0

\* u64::leading_zeros
leading_zeros(x) ==
    IF TopByte(x) = 0 THEN 8 * U64_BYTES
    ELSE 8 * (U64_BYTES - TopByte(x)) + (8 - BitLen(x[TopByte(x)]))

\* u32::saturating_sub
saturating_sub(a, b) == IF a > b THEN a - b ELSE 0

\* Comparison of two u64: a < b, a <= b.
Lt64(a, b) == \E i \in 1..U64_BYTES :
                  a[i] < b[i] /\ \A j \in (i + 1)..U64_BYTES : a[j] = b[j]
Le64(a, b) == a = b \/ Lt64(a, b)

\* a * k + c for small k and c, digit by digit; ovf is the carry out of
\* the eighth byte (the checked arithmetic of Layout fails on it).
RECURSIVE MulAddFrom(_, _, _, _)
MulAddFrom(a, k, c, i) ==
    IF i > U64_BYTES THEN [digits |-> <<>>, ovf |-> c # 0]
    ELSE LET t == a[i] * k + c
             rest == MulAddFrom(a, k, t \div 256, i + 1)
         IN [digits |-> <<t % 256>> \o rest.digits, ovf |-> rest.ovf]
MulAdd64(a, k, c) == MulAddFrom(a, k, c, 1)

(***************************************************************************)
(* header/mod.rs: TooLong and the results of Header::extra_needed.         *)
(***************************************************************************)
TooLong == [ok |-> FALSE, val |-> 0]
Ok(v) == [ok |-> TRUE, val |-> v]

(***************************************************************************)
(* header/boxed.rs: BoxHeader(u8).                                         *)
(***************************************************************************)
\* extra_needed without the inline bits taken off the significant ones.
extra_needed_no_inline(len) ==
    LET significant == 8 * U64_BYTES - leading_zeros(len)
        extra == (significant + 7) \div 8
    IN IF extra <= MAX_EXTRAS THEN Ok(extra) ELSE TooLong

\* extra_needed with the division rounding down (the + 7 left out).
extra_needed_floor(len) ==
    LET significant == 8 * U64_BYTES - leading_zeros(len)
        extra == saturating_sub(significant, INLINE_BITS) \div 8
    IN IF extra <= MAX_EXTRAS THEN Ok(extra) ELSE TooLong

extra_needed(len) ==
    LET zeroes == leading_zeros(len)
        significant == 8 * U64_BYTES - zeroes
        extra == (saturating_sub(significant, INLINE_BITS) + 7) \div 8
    IN IF extra <= MAX_EXTRAS THEN Ok(extra) ELSE TooLong

\* encode_len that leaves the number of extra bytes out of the header byte.
encode_len_no_tag(len, extra) ==
    LET extra_len == extra_needed(len).val
        bytes == len
        written == [i \in 1..Len(extra) |-> IF i <= extra_len THEN bytes[i] ELSE extra[i]]
    IN [hdr |-> BitAnd(bytes[extra_len + 1], INLINE_MASK), extra |-> written]

\* encode_len(len, extra): the header byte and the extra buffer as written.
\* The buffer holds at least extra_needed(len) bytes (the caller's contract);
\* extra_needed(len).unwrap() panics on a length that is too long.
encode_len(len, extra) ==
    LET extra_len == extra_needed(len).val
        bytes == len
        written == [i \in 1..Len(extra) |-> IF i <= extra_len THEN bytes[i] ELSE extra[i]]
        encoded == BitOr(Shl8(BitAnd(extra_len % 256, EXTRA_MASK), INLINE_BITS),
                         BitAnd(bytes[extra_len + 1], INLINE_MASK))
    IN [hdr |-> encoded, extra |-> written]

\* decode_len(self, extra): the length read back from the header byte and
\* the extra bytes.
decode_len(hdr, extra) ==
    LET extra_len == Shr8(hdr, INLINE_BITS)
        buf == [i \in 1..U64_BYTES |->
                   IF i <= extra_len THEN extra[i]
                   ELSE IF i = extra_len + 1 THEN BitAnd(hdr, INLINE_MASK)
                   ELSE 0]
    IN buf

(***************************************************************************)
(* The element type T.  The tests use String (24 bytes, aligned to 8, with *)
(* drop glue) and MaybePanic, whose clone panics on the value "!!!".       *)
(***************************************************************************)
ElemSize == 24
ElemAlign == 8
\* mem::needs_drop::<T>()
NeedsDrop == TRUE
\* The element whose clone panics (MaybePanic("!!!")).
Bang == 0
Val == 1..MaxVal
Elem == {Bang} \cup Val
\* What a read through a pointer that is not the elements' address yields.
Garbage == 0 - 1

\* <T as Clone>::clone
CloneElem(v) == [panic |-> v = Bang, val |-> v]

(***************************************************************************)
(* Slices &[T].  A slice is its length, its first elements written out     *)
(* (head) and the value of every element after them (fill): a slice of     *)
(* 2^30 equal elements is [len |-> 2^30, head |-> <<>>, fill |-> v].       *)
(***************************************************************************)
Explicit(q) == [len |-> ToU64(Len(q)), head |-> q, fill |-> 1]
Filled(n, v) == [len |-> n, head |-> <<>>, fill |-> v]
EmptySlice == Explicit(<<>>)

\* The value of a u64 known to be small.
Small(x) == x[1] + 256 * x[2] + 65536 * x[3] + 16777216 * x[4]

\* s[i], i counted from 0
At(s, i) == IF i < Len(s.head) THEN s.head[i + 1] ELSE s.fill

Max(a, b) == IF a > b THEN a ELSE b

\* Element-wise equality of two slices (PartialEq for [T]).
SliceEq(s, t) ==
    /\ s.len = t.len
    /\ \A i \in 0..Max(Len(s.head), Len(t.head)) :
           Lt64(ToU64(i), s.len) => At(s, i) = At(t, i)

\* The first n elements of s (n <= s.len).
Take(s, n) ==
    [len |-> n,
     head |-> IF Lt64(n, ToU64(Len(s.head))) THEN SubSeq(s.head, 1, Small(n)) ELSE s.head,
     fill |-> s.fill]

\* s with s[i] = v (i < s.len)
Store(s, i, v) ==
    LET grown == [j \in 1..Max(Len(s.head), i + 1) |-> At(s, j - 1)]
    IN [s EXCEPT !.head = [grown EXCEPT ![i + 1] = v]]

\* x - 1 for x > 0, x + 1
Dec64(x) ==
    LET j == CHOOSE j \in 1..U64_BYTES : x[j] # 0 /\ \A i \in 1..(j - 1) : x[i] = 0
    IN [i \in 1..U64_BYTES |-> IF i < j THEN 255 ELSE IF i = j THEN x[i] - 1 ELSE x[i]]
Inc64(x) == MulAdd64(x, 1, 1).digits

(***************************************************************************)
(* State.                                                                  *)
(***************************************************************************)
VARIABLES
    H,        \* the Header type parameter of OwnedSlice<T, H>
    heap,     \* every allocation mem_alloc has returned, by address 1, 2, ...
    handles,  \* the OwnedSlice values the client holds
    last,     \* what the last operation was given and what it returned
    t         \* the length under test in the header's own round-trip test

vars == <<H, heap, handles, last, t>>

(***************************************************************************)
(* A reference-counting header.  Its length byte follows the fixed-width   *)
(* encoder of lib.rs; its share count follows the documentation of         *)
(* Header::encode_len, Header::inc and Header::dec.                        *)
(***************************************************************************)
\* The largest share count the header can hold.
RcMax == 2

Rc_extra_needed(len) == IF Lt64(ToU64(255), len) THEN TooLong ELSE Ok(0)
Rc_encode_len(len, extra) == [hdr |-> [len |-> len[1], count |-> 1], extra |-> extra]
Rc_decode_len(hdr, extra) == ToU64(hdr.len)
Rc_inc(hdr) ==
    IF hdr.count < RcMax THEN [ok |-> TRUE, hdr |-> [hdr EXCEPT !.count = @ + 1]]
    ELSE [ok |-> FALSE, hdr |-> hdr]
Rc_dec(hdr) == [destroy |-> hdr.count = 1, hdr |-> [hdr EXCEPT !.count = @ - 1]]

\* An inc that reports a share without counting it.
inc_shares(hdr) == [ok |-> TRUE, hdr |-> hdr]

\* BoxHeader::inc and BoxHeader::dec; neither changes the header.
inc(hdr) == [ok |-> FALSE, hdr |-> hdr]
dec(hdr) == [destroy |-> TRUE, hdr |-> hdr]

\* The calls H::extra_needed, H::encode_len, ... of the generic code.
H_extra_needed(len) == IF H = "BoxHeader" THEN extra_needed(len) ELSE Rc_extra_needed(len)
H_encode_len(len, extra) ==
    IF H = "BoxHeader" THEN encode_len(len, extra) ELSE Rc_encode_len(len, extra)
H_decode_len(hdr, extra) ==
    IF H = "BoxHeader" THEN decode_len(hdr, extra) ELSE Rc_decode_len(hdr, extra)
H_inc(hdr) == IF H = "BoxHeader" THEN inc(hdr) ELSE Rc_inc(hdr)
H_dec(hdr) == IF H = "BoxHeader" THEN dec(hdr) ELSE Rc_dec(hdr)
\* Layout::new::<H>()
H_layout == [size |-> IF H = "BoxHeader" THEN 1 ELSE 2, align |-> 1]

(***************************************************************************)
(* slice.rs: layouts and offsets.                                          *)
(***************************************************************************)
\* Layout::padding_needed_for, as used by Layout::extend
RoundUp(n, a) == ((n + a - 1) \div a) * a

len_offset == H_layout.size

\* The header, then `extra` bytes, then `len` elements: the three
\* Layout::extend of layout_and_offsets.
extend_layouts(len, extra) ==
    LET l1 == [size |-> H_layout.size + extra, align |-> H_layout.align]
        len_off == H_layout.size
        data_off == RoundUp(l1.size, ElemAlign)
        size == MulAdd64(len, ElemSize, data_off)
    IN [ok |-> TRUE,
        \* .expect("Insanely large stuff"): the size exceeds isize::MAX
        insane |-> size.ovf \/ size.digits[U64_BYTES] >= 128,
        layout |-> [size |-> size.digits, align |-> Max(l1.align, ElemAlign)],
        len_off |-> len_off, data_off |-> data_off]

\* layout_and_offsets without the `?`: the error of extra_needed is dropped.
layout_and_offsets_unchecked(len) == extend_layouts(len, H_extra_needed(len).val)

layout_and_offsets(len) ==
    IF ~H_extra_needed(len).ok     \* let extra = H::extra_needed(len)?;
    THEN [ok |-> FALSE, insane |-> FALSE, layout |-> [size |-> Zero64, align |-> 1],
          len_off |-> 0, data_off |-> 0]
    ELSE extend_layouts(len, H_extra_needed(len).val)

layout(len) == layout_and_offsets(len).layout
data_offset(len) == layout_and_offsets(len).data_off

is_sentinel(header) == header = ZERO_SENTINEL

\* OwnedSlice::len
len(hp, header) ==
    IF is_sentinel(header) THEN Zero64
    ELSE H_decode_len(hp[header].hdr, hp[header].extra)

\* Deref::deref: slice::from_raw_parts(self.data(len), len).  The elements
\* are read where data(len) points; they are the stored ones when that is
\* the offset new wrote them at.
deref(hp, header) ==
    IF is_sentinel(header) THEN EmptySlice
    ELSE LET n == len(hp, header)
             a == hp[header]
         IN IF data_offset(n) = a.dataOff THEN Take(a.data, n)
            ELSE [len |-> n, head |-> <<>>, fill |-> Garbage]

(***************************************************************************)
(* slice.rs: OwnedSlice::new, Drop, Clone as functions of the heap.        *)
(* An allocation records the layout mem_alloc was given, the header, the   *)
(* extra length bytes, the offset and the initialised prefix of the        *)
(* elements, every range [0, n) of elements that was torn down with        *)
(* drop_in_place (torn) and every layout mem_dealloc was given (freed).    *)
(***************************************************************************)
\* for (idx, src) in src.iter().enumerate() { write(clone); initialized.set(idx) }
\* The elements after head are equal, so they are cloned in one step.
RECURSIVE init_loop(_, _, _)
init_loop(src, idx, initialized) ==
    IF idx < Len(src.head)
    THEN IF CloneElem(src.head[idx + 1]).panic
         THEN [panic |-> TRUE, written |-> ToU64(idx), initialized |-> initialized]
         ELSE init_loop(src, idx + 1, ToU64(idx))
    ELSE IF ToU64(idx) = src.len
    THEN [panic |-> FALSE, written |-> src.len, initialized |-> initialized]
    ELSE IF CloneElem(src.fill).panic
    THEN [panic |-> TRUE, written |-> ToU64(idx), initialized |-> initialized]
    ELSE [panic |-> FALSE, written |-> src.len, initialized |-> Dec64(src.len)]

\* Released memory holds no elements: of the elements only their number
\* is kept.
Released(data) == Filled(data.len, Garbage)

\* <CleanupGuard as Drop>::drop: for i in 0..=initialized, then mem_dealloc
CleanupGuard_drop(a, initialized) ==
    [a EXCEPT !.torn = Append(@, Inc64(initialized)),
              !.freed = Append(@, a.layout),
              !.data = Released(@)]

\* <OwnedSlice as Default>::default
OwnedSlice_default == ZERO_SENTINEL

\* OwnedSlice::new after its check for an empty source
new_nonempty(hp, src) ==
    LET lo == layout_and_offsets(src.len)
        ptr == Len(hp) + 1
        enc == H_encode_len(src.len, [i \in 1..H_extra_needed(src.len).val |-> 0])
        run == init_loop(src, 0, Zero64)
        a == [layout |-> lo.layout, hdr |-> enc.hdr, extra |-> enc.extra,
              dataOff |-> lo.data_off,
              data |-> [Take(src, run.written) EXCEPT
                           !.head = [i \in DOMAIN @ |-> CloneElem(@[i]).val]],
              torn |-> <<>>, freed |-> <<>>]
        none == [res |-> "TooLong", header |-> ZERO_SENTINEL, heap |-> hp,
                 cloned |-> Zero64, ub |-> FALSE]
    IN IF ~lo.ok THEN none
       ELSE IF lo.insane \/ lo.layout.size = Zero64 THEN [none EXCEPT !.res = "panic"]
       ELSE IF run.panic
       THEN [res |-> "panic", header |-> ZERO_SENTINEL,
             heap |-> Append(hp, CleanupGuard_drop(a, run.initialized)),
             cloned |-> Inc64(run.written),
             \* drop_in_place of a slot that was never written
             ub |-> Lt64(run.written, Inc64(run.initialized))]
       ELSE [res |-> "Ok", header |-> ptr, heap |-> Append(hp, a),
             cloned |-> src.len, ub |-> FALSE]

\* new without its check for an empty source.
new_without_sentinel(hp, src) == new_nonempty(hp, src)

new(hp, src) ==
    IF src.len = Zero64      \* src.is_empty()
    THEN [res |-> "Ok", header |-> OwnedSlice_default, heap |-> hp,
          cloned |-> Zero64, ub |-> FALSE]
    ELSE new_nonempty(hp, src)

\* A drop that destroys whatever dec answers.
drop_ignoring_dec(hp, header) ==
    IF is_sentinel(header) THEN [heap |-> hp, ub |-> FALSE]
    ELSE
    LET hp1 == [hp EXCEPT ![header].hdr = H_dec(hp[header].hdr).hdr]
        a == hp1[header]
        n == len(hp1, header)
        lay == layout(n)
    IN [heap |-> [hp1 EXCEPT ![header].torn = IF NeedsDrop THEN Append(@, n) ELSE @,
                             ![header].freed = Append(@, lay),
                             ![header].data = Released(@)],
        ub |-> \/ lay # a.layout
               \/ data_offset(n) # a.dataOff
               \/ Lt64(a.data.len, n)
               \/ a.freed # <<>>]

\* <OwnedSlice as Drop>::drop
drop(hp, header) ==
    IF is_sentinel(header) THEN [heap |-> hp, ub |-> FALSE]
    ELSE
    LET d == H_dec(hp[header].hdr)
        hp1 == [hp EXCEPT ![header].hdr = d.hdr]
        a == hp1[header]
        n == len(hp1, header)
        lay == layout(n)
    IN IF d.destroy
       THEN [heap |-> [hp1 EXCEPT ![header].torn = IF NeedsDrop THEN Append(@, n) ELSE @,
                                  ![header].freed = Append(@, lay),
                                  ![header].data = Released(@)],
             \* a layout mem_alloc was not given, elements that are not there,
             \* or an allocation already released
             ub |-> \/ lay # a.layout
                    \/ data_offset(n) # a.dataOff
                    \/ Lt64(a.data.len, n)
                    \/ a.freed # <<>>]
       ELSE [heap |-> hp1, ub |-> a.freed # <<>>]

\* A clone that never asks the header for a share.
clone_always_deep(hp, header) == new(hp, deref(hp, header))

\* <OwnedSlice as Clone>::clone
clone(hp, header) ==
    IF ~is_sentinel(header) /\ H_inc(hp[header].hdr).ok
    THEN [res |-> "Ok", header |-> header,
          heap |-> [hp EXCEPT ![header].hdr = H_inc(@).hdr],
          cloned |-> Zero64, ub |-> FALSE]
    ELSE LET r == new(hp, deref(hp, header))
         IN \* .expect("Already have layout for this size")
            IF r.res = "TooLong" THEN [r EXCEPT !.res = "panic"] ELSE r

(***************************************************************************)
(* The client program: it builds, clones, overwrites and drops handles.    *)
(***************************************************************************)
\* 2^n as a u64
Pow2_64(n) == [i \in 1..U64_BYTES |-> IF i = (n \div 8) + 1 THEN Pow2(n % 8) ELSE 0]

\* The lengths of the long sources: 300 (one extra byte), 2^30 (the first
\* length of four extra bytes), 3 * 2^32, and 2^38 (the first rejected one).
LongLens == {ToU64(300), Pow2_64(30), MulAdd64(Pow2_64(32), 3, 0).digits, Pow2_64(38)}

Sources ==
    {Explicit(q) : q \in UNION {[1..n -> Elem] : n \in 0..MaxLen}}
        \cup {Filled(n, 1) : n \in LongLens}

NoHandle == [live |-> FALSE, header |-> ZERO_SENTINEL]
Handle(header) == [live |-> TRUE, header |-> header]

\* The record of a call: its arguments (from: the handle cloned, idx and
\* val: the index and value written), its result, and what the allocator
\* saw during it (allocs, frees: calls of mem_alloc and mem_dealloc) and the
\* number of calls of T::clone (cloned).
Outcome(op, h, from, idx, val, src, res, header, allocs, frees, cloned) ==
    [op |-> op, h |-> h, from |-> from, idx |-> idx, val |-> val, src |-> src,
     res |-> res, header |-> header, allocs |-> allocs, frees |-> frees,
     cloned |-> cloned]

RECURSIVE SumFreed(_, _)
SumFreed(hp, n) == IF n = 0 THEN 0 ELSE Len(hp[n].freed) + SumFreed(hp, n - 1)
\* The calls of mem_dealloc so far.
Frees(hp) == SumFreed(hp, Len(hp))

\* The client keeps a new handle in its first unused variable.
FirstFree(h) == ~handles[h].live /\ \A g \in 1..(h - 1) : handles[g].live

\* The process runs until it aborts.
Running == last.res # "abort"

\* The end of a call that may build a handle (new, clone) with result r:
\* mem_alloc may return null (handle_alloc_error aborts), and after
\* undefined behaviour the process may abort or go on.
Return(op, h, from, src, result) ==
    \E r \in {result}, allocated \in BOOLEAN, crash \in BOOLEAN :
         /\ Len(r.heap) <= MaxAllocs
         /\ ~allocated => Len(r.heap) > Len(heap) /\ ~crash
         /\ crash => r.ub
         /\ IF ~allocated
            THEN /\ heap' = heap
                 /\ handles' = handles
                 /\ last' = Outcome(op, h, from, 0, 0, src, "abort", ZERO_SENTINEL,
                                    0, 0, Zero64)
            ELSE /\ heap' = r.heap
                 /\ handles' = IF r.res = "Ok" /\ ~crash
                               THEN [handles EXCEPT ![h] = Handle(r.header)]
                               ELSE handles
                 /\ last' = Outcome(op, h, from, 0, 0, src,
                                    IF crash THEN "abort" ELSE r.res, r.header,
                                    Len(r.heap) - Len(heap), Frees(r.heap) - Frees(heap),
                                    r.cloned)

\* let h = OwnedSlice::new(src)
New(h, src) ==
    /\ Running
    /\ FirstFree(h)
    \* a source that needs an allocation, only while the allocator has one
    /\ Len(heap) < MaxAllocs \/ src.len = Zero64 \/ ~H_extra_needed(src.len).ok
    /\ Return("new", h, 0, src, new(heap, src))
    /\ UNCHANGED <<H, t>>

\* let h = OwnedSlice::default()
Default(h) ==
    /\ Running
    /\ FirstFree(h)
    /\ handles' = [handles EXCEPT ![h] = Handle(OwnedSlice_default)]
    /\ last' = Outcome("default", h, 0, 0, 0, EmptySlice, "Ok", OwnedSlice_default,
                       0, 0, Zero64)
    /\ UNCHANGED <<H, heap, t>>

\* let h = from.clone()
Clone(from, h) ==
    /\ Running
    /\ handles[from].live
    /\ FirstFree(h)
    /\ Return("clone", h, from, deref(heap, handles[from].header),
              clone(heap, handles[from].header))
    /\ UNCHANGED <<H, t>>

\* drop(h)
Drop(h) ==
    /\ Running
    /\ handles[h].live
    /\ \E r \in {drop(heap, handles[h].header)}, crash \in BOOLEAN :
          /\ crash => r.ub
          /\ heap' = r.heap
          /\ last' = Outcome("drop", h, 0, 0, 0, EmptySlice,
                             IF crash THEN "abort" ELSE "Ok", handles[h].header,
                             0, Frees(r.heap) - Frees(heap), Zero64)
    /\ handles' = [handles EXCEPT ![h] = NoHandle]
    /\ UNCHANGED <<H, t>>

\* h[i] = v through DerefMut::deref_mut, which only OwnedSlice<T, BoxHeader>
\* has; the index is inside the view.
Write(h, i, v) ==
    /\ Running
    /\ H = "BoxHeader"
    /\ handles[h].live
    /\ ~is_sentinel(handles[h].header)
    /\ LET header == handles[h].header
           n == len(heap, header)
       IN /\ Lt64(ToU64(i), n)
          /\ data_offset(n) = heap[header].dataOff
          /\ heap' = [heap EXCEPT ![header].data = Store(@, i, v)]
          /\ last' = Outcome("write", h, 0, i, v, EmptySlice, "Ok", header, 0, 0, Zero64)
    /\ UNCHANGED <<H, handles, t>>

(***************************************************************************)
(* The header's own test (tests::random_len of boxed.rs): size, encode     *)
(* and decode one length.                                                  *)
(***************************************************************************)
\* Lengths with the top byte at each of the eight places, at the values
\* around the 6-bit boundary, above lower bytes of one value.
TopBytes == {0, 1, 63, 64, 65, 128, 255}
LowBytes == {0, 44, 94, 255}
\* Every length the inline bits and one bit more can hold: 0 .. 2^7 - 1.
InlineLens == {ToU64(n) : n \in 0..(Pow2(INLINE_BITS + 1) - 1)}
LenInputs ==
    {[i \in 1..U64_BYTES |-> IF i < top THEN low ELSE IF i = top THEN b ELSE 0] :
        top \in 1..U64_BYTES, b \in TopBytes, low \in LowBytes}
        \cup InlineLens

TestOff == [pc |-> "off", len |-> Zero64, extra |-> TooLong, hdr |-> 0, buf |-> <<>>,
            out |-> Zero64]

ExtraNeededStep ==
    /\ t.pc = "start"
    /\ LET extra == extra_needed(t.len)
       IN t' = [t EXCEPT !.extra = extra, !.pc = IF extra.ok THEN "sized" ELSE "rejected"]
    /\ UNCHANGED <<H, heap, handles, last>>

EncodeStep ==
    /\ t.pc = "sized"
    /\ LET e == encode_len(t.len, [i \in 1..t.extra.val |-> 0])
       IN t' = [t EXCEPT !.hdr = e.hdr, !.buf = e.extra, !.pc = "encoded"]
    /\ UNCHANGED <<H, heap, handles, last>>

DecodeStep ==
    /\ t.pc = "encoded"
    /\ t' = [t EXCEPT !.out = decode_len(t.hdr, t.buf), !.pc = "decoded"]
    /\ UNCHANGED <<H, heap, handles, last>>

(***************************************************************************)
(* Specifications.                                                         *)
(***************************************************************************)
InitClient(header, nhandles) ==
    /\ H = header
    /\ heap = <<>>
    /\ handles = [h \in 1..nhandles |-> NoHandle]
    /\ last = Outcome("init", 0, 0, 0, 0, EmptySlice, "Ok", ZERO_SENTINEL, 0, 0, Zero64)

\* OwnedSlice<T, BoxHeader>
Init == InitClient("BoxHeader", MaxHandles) /\ t = TestOff

Next ==
    \/ \E h \in DOMAIN handles, src \in Sources : New(h, src)
    \/ \E h \in DOMAIN handles : Default(h)
    \/ \E from \in DOMAIN handles, h \in DOMAIN handles : Clone(from, h)
    \/ \E h \in DOMAIN handles : Drop(h)
    \/ \E h \in DOMAIN handles, i \in 0..(MaxLen - 1), v \in Val : Write(h, i, v)

Spec == Init /\ [][Next]_vars

\* OwnedSlice<T, H> with a sharing header; the client holds one handle more
\* than the header can count.
InitShared == InitClient("RcHeader", RcMax + 1) /\ t = TestOff

NextShared ==
    \/ \E h \in DOMAIN handles, src \in Sources : New(h, src)
    \/ \E h \in DOMAIN handles : Default(h)
    \/ \E from \in DOMAIN handles, h \in DOMAIN handles : Clone(from, h)
    \/ \E h \in DOMAIN handles : Drop(h)

SpecShared == InitShared /\ [][NextShared]_vars

\* The header alone
InitHeader ==
    /\ InitClient("BoxHeader", MaxHandles)
    /\ t \in {[TestOff EXCEPT !.pc = "start", !.len = n] : n \in LenInputs}

NextHeader == ExtraNeededStep \/ EncodeStep \/ DecodeStep

SpecHeader == InitHeader /\ [][NextHeader]_vars

(***************************************************************************)
(* What the properties are stated with.                                    *)
(***************************************************************************)
\* Bit k (from 0) of a u64, and its number of significant bits.
Bit(x, k) == (x[(k \div 8) + 1] \div Pow2(k % 8)) % 2
SigBits(x) ==
    IF \A k \in 0..63 : Bit(x, k) = 0 THEN 0
    ELSE CHOOSE s \in 1..64 : Bit(x, s - 1) = 1 /\ \A k \in s..63 : Bit(x, k) = 0

\* ceil(a / b)
CeilDiv(a, b) == CHOOSE q \in 0..a : q * b >= a /\ (q = 0 \/ (q - 1) * b < a)

\* Some element of s makes T::clone panic; the index of the first one.
HasFailing(s) ==
    \E i \in 0..Len(s.head) : Lt64(ToU64(i), s.len) /\ At(s, i) = Bang
FirstFailing(s) ==
    CHOOSE i \in 0..Len(s.head) :
        /\ Lt64(ToU64(i), s.len) /\ At(s, i) = Bang
        /\ \A j \in 0..(i - 1) : At(s, j) # Bang

\* How many times the element at index i (a u64) of allocation a was torn
\* down.  Every teardown is of a range [0, n), so the number does not grow
\* with i: elements 0..k-1 were torn down once each exactly when the
\* elements 0 and k-1 were.
TornTimes(a, i) == Cardinality({j \in DOMAIN a.torn : Lt64(i, a.torn[j])})
TornOnceBelow(a, k) ==
    k # Zero64 => TornTimes(a, Zero64) = 1 /\ TornTimes(a, Dec64(k)) = 1

Live == {h \in DOMAIN handles : handles[h].live}
Content(h) == deref(heap, handles[h].header)

(***************************************************************************)
(* Properties of the header.                                               *)
(***************************************************************************)
\* C1: round trip of BoxHeader: a length that extra_needed accepts, encoded
\* into a header and a buffer of exactly extra_needed bytes and decoded from
\* them, is the length again.
C1_RoundTrip == t.pc = "decoded" => t.out = t.len

C11_Example300Byte94 ==
    (t.pc = "decoded" /\ t.len = ToU64(300)) =>
        /\ t.extra = Ok(1)
        /\ t.hdr = 65
        /\ t.buf = <<94>>
        /\ t.out = ToU64(300)

\* C11, amended: the length 300 = 1 * 256 + 44 is encoded with one extra byte
\* as the header byte 0b0100_0001 (tag 01, inline bits 000001) and the extra
\* byte 44, and decodes to 300; the extra byte 94 is that of the length
\* 350 = 1 * 256 + 94, which has the same header byte and decodes to 350.
C11_WorkedExample ==
    /\ (t.pc = "decoded" /\ t.len = ToU64(300)) =>
          /\ t.extra = Ok(1)
          /\ t.hdr = 65
          /\ t.buf = <<44>>
          /\ t.out = ToU64(300)
    /\ (t.pc = "decoded" /\ t.len = ToU64(350)) =>
          /\ t.extra = Ok(1)
          /\ t.hdr = 65
          /\ t.buf = <<94>>
          /\ t.out = ToU64(350)

\* C11 witness: the length 300 was encoded and decoded.
C11_Witness ==
    /\ t.pc = "decoded"
    /\ t.len = ToU64(300)
    /\ t.buf = <<44>>
    /\ t.out = ToU64(300)

C2_PanicSafety ==
    (last.op = "new" /\ last.src.len # Zero64 /\ H_extra_needed(last.src.len).ok
        /\ HasFailing(last.src) /\ last.allocs = 1) =>
        LET a == heap[Len(heap)]
            k == ToU64(FirstFailing(last.src))
        IN /\ TornOnceBelow(a, k)
           /\ TornTimes(a, k) = 0
           /\ Len(a.freed) = 1
           /\ last.res = "panic"

\* C3: destruction law: once every handle is dropped, there are as many
\* deallocations as allocations, every allocation was released exactly
\* once, and every element stored in one was torn down exactly once.
C3_Destruction ==
    Live = {} =>
        /\ Frees(heap) = Len(heap)
        /\ \A p \in DOMAIN heap :
             /\ Len(heap[p].freed) = 1
             /\ TornOnceBelow(heap[p], heap[p].data.len)

\* C4: sentinel law: new on an empty source allocates nothing and returns
\* the sentinel handle, of length 0 and of the content of the default
\* handle; the clone of a sentinel handle is the sentinel, without an
\* allocation; the drop of a sentinel handle releases nothing.
C4_Sentinel ==
    /\ (last.op = "new" /\ last.src.len = Zero64) =>
          /\ last.res = "Ok"
          /\ last.allocs = 0
          /\ is_sentinel(last.header)
          /\ handles[last.h] = Handle(last.header)
          /\ len(heap, last.header) = Zero64
          /\ SliceEq(deref(heap, last.header), deref(heap, OwnedSlice_default))
    /\ (last.op = "clone" /\ is_sentinel(handles[last.from].header)) =>
          /\ last.res = "Ok"
          /\ last.allocs = 0
          /\ is_sentinel(last.header)
          /\ handles[last.h] = Handle(last.header)
    /\ (last.op = "drop" /\ is_sentinel(last.header)) =>
          /\ last.res = "Ok"
          /\ last.frees = 0

\* C4 witness: new was called on the empty source while an allocation is live.
C4_Witness ==
    /\ last.op = "new"
    /\ last.src.len = Zero64
    /\ last.res = "Ok"
    /\ \E g \in Live : ~is_sentinel(handles[g].header)

\* C6: with BoxHeader, the clone of a non-empty OwnedSlice is a new
\* allocation, not the original's, of element-wise equal content (the
\* original's being what it was built from or overwritten with), and no two
\* live handles refer to one allocation.
C6_CloneIsDeep ==
    /\ (last.op = "clone" /\ last.res = "Ok" /\ ~is_sentinel(handles[last.from].header)) =>
          /\ last.allocs = 1
          /\ ~is_sentinel(last.header)
          /\ last.header # handles[last.from].header
          /\ SliceEq(heap[last.header].data, heap[handles[last.from].header].data)
          /\ SliceEq(Content(last.h), Content(last.from))
    /\ \A g, h \in Live :
          g # h /\ ~is_sentinel(handles[g].header) => handles[g].header # handles[h].header

C10_ReadBack ==
    (last.op = "new" /\ last.res = "Ok") =>
        /\ len(heap, last.header) = last.src.len
        /\ SliceEq(deref(heap, last.header), last.src)

\* C13: layout reproducibility: when a handle that new made is dropped, the
\* layout drop computes from the decoded length and gives to mem_dealloc is
\* the layout new gave to mem_alloc, and the elements drop tears down are
\* exactly the ones new initialised.
C13_LayoutReproducible ==
    (last.op = "drop" /\ ~is_sentinel(last.header)) =>
        LET a == heap[last.header]
        IN /\ a.freed = <<a.layout>>
           /\ a.torn = <<a.data.len>>

\* One step of the client: what a step may change of what the handles read.
C8_Step ==
    /\ last'.op = "write" =>
          \A old \in {Content(last'.h)}, new_ \in {deref(heap', handles'[last'.h].header)} :
             /\ handles' = handles
             /\ new_.len = old.len
             /\ Lt64(ToU64(last'.idx), new_.len)
             /\ \A j \in 0..Max(Len(old.head), Len(new_.head)) :
                  Lt64(ToU64(j), old.len) =>
                      At(new_, j) = IF j = last'.idx THEN last'.val ELSE At(old, j)
    /\ \A g \in DOMAIN handles :
          (handles[g].live /\ handles'[g].live /\ ~(last'.op = "write" /\ last'.h = g)) =>
              /\ handles'[g] = handles[g]
              /\ \A old \in {Content(g)}, new_ \in {deref(heap', handles'[g].header)} :
                    SliceEq(new_, old)

\* C8: with BoxHeader, a write of v at index i through the mutable view of
\* a handle makes the reads of that handle give v at i and what they gave
\* before at every other index, and changes the content of no other live
\* handle (a clone taken before the write included); and no step but a
\* write to a handle changes what its reads give.
C8_WriteFrame == [][C8_Step]_vars

\* C8 witness: after a write to one handle, another live handle of the same
\* length (a clone taken before the write) reads differently.
C8_Witness ==
    /\ last.op = "write"
    /\ \E g \in Live \ {last.h} :
         /\ ~is_sentinel(handles[g].header)
         /\ Content(g).len = Content(last.h).len
         /\ At(Content(g), last.idx) # last.val
         /\ At(Content(last.h), last.idx) = last.val

(***************************************************************************)
(* Properties of OwnedSlice<T, H> with a sharing header.                   *)
(***************************************************************************)
\* One clone step: what it returns, by what inc answers.
C7_Step ==
    (last'.op = "clone" /\ last'.res = "Ok" /\ ~is_sentinel(handles[last'.from].header)) =>
        LET p == handles[last'.from].header
        IN IF H_inc(heap[p].hdr).ok
           THEN /\ last'.header = p
                /\ handles'[last'.h] = Handle(p)
                /\ last'.allocs = 0
                /\ last'.cloned = Zero64
                /\ Len(heap') = Len(heap)
           ELSE /\ last'.header # p
                /\ last'.header = Len(heap) + 1
                /\ handles'[last'.h] = Handle(last'.header)
                /\ last'.allocs = 1
                /\ Len(heap') = Len(heap) + 1
                /\ heap'[last'.header].freed = <<>>
                /\ SliceEq(deref(heap', last'.header), deref(heap, p))

\* C7: under a sharing header, the clone of a non-empty handle is a handle
\* to the same allocation, with no allocation and no element cloned, as
\* long as inc returns true; when inc returns false (the count is full),
\* the clone is a handle to a fresh allocation holding a copy.
C7_SharingClone == [][C7_Step]_vars

\* C7 witness: the count of an allocation is full and its last clone is a
\* handle to another allocation.
C7_Witness ==
    /\ H = "RcHeader"
    /\ last.op = "clone"
    /\ last.res = "Ok"
    /\ ~is_sentinel(handles[last.from].header)
    /\ heap[handles[last.from].header].hdr.count = RcMax
    /\ last.header # handles[last.from].header

\* One step: what a drop does to the allocation of its handle, by what dec
\* answers, and what every step leaves of the allocations it does not drop.
C14_Step ==
    /\ (last'.op = "drop" /\ ~is_sentinel(handles[last'.h].header)) =>
          LET p == handles[last'.h].header
              others == {g \in DOMAIN handles \ {last'.h} :
                            handles[g].live /\ handles[g].header = p}
          IN /\ IF H_dec(heap[p].hdr).destroy
                THEN /\ others = {}
                     /\ heap'[p].freed = <<heap[p].layout>>
                     /\ heap'[p].torn = <<heap[p].data.len>>
                     /\ last'.frees = 1
                ELSE /\ others # {}
                     /\ heap'[p].freed = <<>>
                     /\ heap'[p].torn = <<>>
                     /\ heap'[p].data = heap[p].data
                     /\ last'.frees = 0
             /\ \A q \in DOMAIN heap \ {p} : heap'[q] = heap[q]
    /\ last'.op # "drop" =>
          \A q \in DOMAIN heap : heap'[q].freed = heap[q].freed /\ heap'[q].torn = heap[q].torn
    /\ \A g \in DOMAIN handles' :
          (handles'[g].live /\ ~is_sentinel(handles'[g].header)) =>
              heap'[handles'[g].header].freed = <<>>

\* C14: under a sharing header whose inc and dec pair, in every sequence of
\* clones and drops: a drop whose dec returns false tears down no element
\* and releases nothing; an allocation is released only by the drop whose
\* dec returns true, that of its last owner; and no live handle refers to
\* an allocation that was released.
C14_SharedRelease == [][C14_Step]_vars

\* C14 witness: a handle was dropped while another live handle held the
\* same allocation, which is not released.
C14_Witness ==
    /\ H = "RcHeader"
    /\ last.op = "drop"
    /\ ~is_sentinel(last.header)
    /\ heap[last.header].freed = <<>>
    /\ \E g \in Live : handles[g].header = last.header

====
